---- MODULE Spec2Model ----
(***************************************************************************)
(* StockDataProcessor (stock_price_predictor/data_processing.py): the      *)
(* constructor, fetch_stock_data, process_data, save_data and run_pipeline *)
(* as a state machine over the file system, the objects alive during one   *)
(* call of a method, the logger's records and the position of the control  *)
(* inside the method that is running.                                      *)
(***************************************************************************)
EXTENDS Integers, Sequences, FiniteSets, TLC

VARIABLES
    dirs,       \* the directories that exist, each a sequence of path components
    files,      \* path -> the lines of the file at that path (its domain: the files that exist)
    proc,       \* the StockDataProcessor object: whether it was constructed, and self.data_dir
    heap,       \* the DataFrame objects alive during the current call, by reference (1..Len)
    frame,      \* the local variables of the running methods (references into heap, 0: unbound)
    log,        \* the records the logger received during the current call
    calls,      \* the method calls, provider requests and file writes of the current call
    pc,         \* the statement the control is at ("idle": in the caller)
    outer,      \* the method the caller invoked
    args,       \* the arguments of that invocation
    exc,        \* the exception in flight (NoExc: none)
    raised,     \* the exception as the failing library call first raised it
    result,     \* what the last invocation delivered to its caller
    fillPad,    \* whether the installed pandas pads NaN before pct_change (fill_method default)
    lastSaved   \* ticker -> what the last save_data for it wrote (history)

vars == <<dirs, files, proc, heap, frame, log, calls, pc, outer, args, exc, raised,
          result, fillPad, lastSaved>>

-----------------------------------------------------------------------------
(* Bounds of the model *)

\* the longest series handed to process_data
MaxLen == 26
\* the calendar day datetime.today() falls on; the provider has one row per earlier day
Today == 4

(* Constants of the program *)

MA5Window == 5
MA20Window == 20
VolatilityWindow == 20

-----------------------------------------------------------------------------
(* Values of a table: a float is a fraction num/den, or NaN *)

NaN == [def |-> FALSE, num |-> 0, den |-> 1]
Frac(n, d) == [def |-> TRUE, num |-> n, den |-> d]
Num(n) == Frac(n, 1)

\* returns are measured in 1/BasisPoints for the deviation's arithmetic
BasisPoints == 10000

RECURSIVE SumOver(_, _, _)
SumOver(f, lo, hi) == IF lo > hi THEN 0 ELSE f[hi] + SumOver(f, lo, hi - 1)

(* A DataFrame: the column labels, and the rows in index order, each its   *)
(* date (the index) and one value per column.                              *)

NRows(df) == Len(df.rows)

HasCol(df, c) == \E k \in 1..Len(df.columns) : df.columns[k] = c

ColIdx(df, c) == CHOOSE k \in 1..Len(df.columns) : df.columns[k] = c

\* df[c]: the column c, one value per row (KeyError when there is no such column)
GetItem(df, c) == [i \in 1..NRows(df) |-> df.rows[i].vals[ColIdx(df, c)]]

\* df[c] = col: replaces the column c, or appends it as the last column
SetItem(df, c, col) ==
    IF HasCol(df, c)
    THEN [df EXCEPT !.rows = [i \in 1..NRows(df) |->
              [df.rows[i] EXCEPT !.vals[ColIdx(df, c)] = col[i]]]]
    ELSE [columns |-> Append(df.columns, c),
          rows |-> [i \in 1..NRows(df) |->
              [df.rows[i] EXCEPT !.vals = Append(@, col[i])]]]

\* df[c] = scalar: the scalar on every row
SetItemScalar(df, c, v) == SetItem(df, c, [i \in 1..NRows(df) |-> v])

WindowDefined(col, i, w) == i >= w /\ \A j \in (i - w + 1)..i : col[j].def

\* col.rolling(window=w).mean(): NaN until w values are there and wherever the
\* window holds a NaN (min_periods defaults to the window); col holds whole numbers
RollingMean(col, w) ==
    [i \in DOMAIN col |->
        IF WindowDefined(col, i, w)
        THEN Frac(SumOver([j \in DOMAIN col |-> col[j].num], i - w + 1, i), w)
        ELSE NaN]

\* col.ffill(): each NaN takes the last value before it
FFill(col) ==
    LET f[i \in DOMAIN col] == IF col[i].def \/ i = 1 THEN col[i] ELSE f[i - 1]
    IN  f

\* a variant of pct_change that gives the first row 0 instead of NaN
PctChangeZeroFirst(col, pad) ==
    LET src == IF pad THEN FFill(col) ELSE col
    IN  [i \in DOMAIN col |->
            IF i = 1 THEN Num(0)
            ELSE IF src[i].def /\ src[i - 1].def
            THEN Frac(src[i].num - src[i - 1].num, src[i - 1].num)
            ELSE NaN]

\* col.pct_change(): col[t] / col[t-1] - 1 over the padded column (pad) or the
\* column as it is; NaN on the first row and where either value is NaN
PctChange(col, pad) ==
    LET src == IF pad THEN FFill(col) ELSE col
    IN  [i \in DOMAIN col |->
            IF i > 1 /\ src[i].def /\ src[i - 1].def
            THEN Frac(src[i].num - src[i - 1].num, src[i - 1].num)
            ELSE NaN]

\* col.rolling(window=w).std(): the sample deviation (ddof = 1) of the window,
\* kept as its square, the variance of the values in basis points:
\* (w * sum(x^2) - sum(x)^2) / (w * (w - 1)); NaN as for the mean
RollingStd(col, w) ==
    LET x == [j \in DOMAIN col |->
                 IF col[j].def THEN (col[j].num * BasisPoints) \div col[j].den ELSE 0]
        sq == [j \in DOMAIN col |-> x[j] * x[j]]
    IN  [i \in DOMAIN col |->
            IF WindowDefined(col, i, w) /\ w > 1
            THEN Frac(w * SumOver(sq, i - w + 1, i)
                        - SumOver(x, i - w + 1, i) * SumOver(x, i - w + 1, i),
                      w * (w - 1))
            ELSE NaN]

RowDefined(r) == \A k \in 1..Len(r.vals) : r.vals[k].def

\* df.dropna(): the rows with no NaN in any column, in their order
DropNa(df) == [df EXCEPT !.rows = SelectSeq(df.rows, RowDefined)]

\* process_data without dropna: the four indicator columns added
AddIndicators(df, pad) ==
    LET d1 == SetItem(df, "MA5", RollingMean(GetItem(df, "Close"), MA5Window))
        d2 == SetItem(d1, "MA20", RollingMean(GetItem(d1, "Close"), MA20Window))
        d3 == SetItem(d2, "Daily_Return", PctChange(GetItem(d2, "Close"), pad))
        d4 == SetItem(d3, "Volatility",
                      RollingStd(GetItem(d3, "Daily_Return"), VolatilityWindow))
    IN  d4

\* a variant without the dropna
TransformKeepNaN(df, pad) == AddIndicators(df, pad)

\* the statements of process_data on its copy: the indicators, then dropna
Transform(df, pad) == DropNa(AddIndicators(df, pad))

-----------------------------------------------------------------------------
(* The market-data provider (yfinance) and what the caller passes in *)

Tickers == {"AAPL", "ZZZZ"}
\* the caller's days_back: none, and main's 18
DaysBackValues == {0, 18}

ProviderColumns == <<"Open", "High", "Low", "Close", "Volume">>

\* the provider's row of a listed ticker on a day
Quote(d) ==
    [date |-> d,
     vals |-> <<Num(99 + d), Num(101 + d), Num(98 + d), Num(100 + d), Num(1000 * d)>>]

\* the days the provider has rows for: ZZZZ is delisted
TradingDays(t) == IF t = "AAPL" THEN 1..(Today - 1) ELSE {}

\* datetime.today(), timedelta and strftime('%Y-%m-%d'): the time of day is dropped
Now == [day |-> Today, tod |-> 1]
MinusDays(dt, n) == [dt EXCEPT !.day = @ - n]
Strftime(dt) == dt.day

\* stock.history(start, end): the rows with start <= date < end, in date order
History(t, start, end) ==
    LET days == {d \in TradingDays(t) : start <= d /\ d < end}
        f[i \in 0..Today] ==
            IF i = 0 THEN << >>
            ELSE IF i \in days THEN Append(f[i - 1], Quote(i)) ELSE f[i - 1]
    IN  [columns |-> ProviderColumns, rows |-> f[Today]]

\* the request fetch_stock_data makes for (ticker, days_back)
HistoryRequest(t, n) == History(t, Strftime(MinusDays(Now, n)), Strftime(Now))

\* stock.info.get('targetMeanPrice', None): the lookup raises, the key is
\* missing (None), or the price is there, 0 or not
InfoOutcomes == {"raise", "missing", "zero", "target"}
TargetMeanPrice(o) == IF o = "target" THEN Num(150) ELSE Num(0)
\* if target_data:
Truthy(o) == o = "target"

\* the frames a caller hands to save_data and process_data
NoCloseFrame == [columns |-> <<"Open">>, rows |-> <<[date |-> 1, vals |-> <<Num(100)>>]>>]
ClientFrames == {HistoryRequest("AAPL", 18), HistoryRequest("ZZZZ", 18), NoCloseFrame}

-----------------------------------------------------------------------------
(* The file system *)

\* Path(data_dir) candidates: the default "data", and a nested "out/stocks"
DataDirs == {<<"data">>, <<"out", "stocks">>}

Parent(d) == SubSeq(d, 1, Len(d) - 1)

\* Path.mkdir(exist_ok=True): parents defaults to False, so a missing parent is
\* FileNotFoundError
MkdirOk(ds, d) == Parent(d) = << >> \/ Parent(d) \in ds

\* self.data_dir / f"{ticker}_stock_data.csv"
Filename(dir, t) == Append(dir, t \o "_stock_data.csv")

FormatCell(c) ==
    IF ~c.def THEN ""
    ELSE IF c.den = 1 THEN ToString(c.num)
    ELSE ToString(c.num) \o "/" \o ToString(c.den)

CsvRow(r) == <<ToString(r.date)>> \o [k \in 1..Len(r.vals) |-> FormatCell(r.vals[k])]

CsvRows(df) == [i \in 1..NRows(df) |-> CsvRow(df.rows[i])]

\* a variant that writes nothing for a table without rows
ToCsvNoHeaderWhenEmpty(df) ==
    IF NRows(df) = 0 THEN << >> ELSE <<(<<"Date">> \o df.columns)>> \o CsvRows(df)

\* DataFrame.to_csv: the header (the index's name, then the columns), then a
\* line per row
ToCsv(df) == <<(<<"Date">> \o df.columns)>> \o CsvRows(df)

\* a variant that opens the file for appending
WriteFileAppend(fs, p, lines) ==
    IF p \in DOMAIN fs THEN (p :> (fs[p] \o lines)) @@ fs ELSE (p :> lines) @@ fs

\* open(path, 'w') and the write: the file holds the lines, whatever it held
WriteFile(fs, p, lines) == (p :> lines) @@ fs

\* to_csv: written, refused before the file is opened, or failing after k lines
ToCsvOutcomes == {"ok", "denied", "full"}

-----------------------------------------------------------------------------
(* Exceptions, log records, events *)

NoTicker == ""
NoExc == [type |-> "", site |-> ""]
Exc(type, site) == [type |-> type, site |-> site]

\* a variant that raises a new exception in place of the one caught
ReraiseWrapped(e) == Exc("RuntimeError", e.site)

\* raise (no operand) inside an except block: the exception caught, itself
Reraise(e) == e

\* self.logger.<level>(message): the level, the method the message names, the
\* ticker the message formats (NoTicker: none) and the exception it formats
LogRecord(level, stage, t, e) == [level |-> level, stage |-> stage, ticker |-> t, exc |-> e]

\* the error messages of the four handlers: only fetch_stock_data's and
\* run_pipeline's format {ticker}
ErrorRecord(stage, t, e) ==
    <<LogRecord("ERROR", stage,
                IF stage \in {"fetch_stock_data", "run_pipeline"} THEN t ELSE NoTicker, e)>>

Event(ev, fn, t, n, d, out) ==
    [ev |-> ev, fn |-> fn, ticker |-> t, days_back |-> n, data |-> d, out |-> out]
CallEvent(fn, t, n, d) == Event("call", fn, t, n, d, "")

NoFrame == [hist_data |-> 0, raw_data |-> 0, data |-> 0, step |-> 0]
NoResult == [op |-> "", kind |-> "none", ref |-> 0, exc |-> NoExc]
Returned(op, r) == [op |-> op, kind |-> "return", ref |-> r, exc |-> NoExc]
Raised(op, e) == [op |-> op, kind |-> "raise", ref |-> 0, exc |-> e]
NoArgs == [ticker |-> NoTicker, days_back |-> 0, data |-> 0]

\* known: the last save wrote the whole table data; replaced: over a file that
\* held something else
Unsaved == [known |-> FALSE, data |-> [columns |-> << >>, rows |-> << >>], replaced |-> FALSE]
Saved(df, over) == [known |-> TRUE, data |-> df, replaced |-> over]

-----------------------------------------------------------------------------
(* Control *)

\* a variant with the call of process_data in place
PipelineStagesWithProcess == <<"fetch_stock_data", "process_data", "save_data">>

\* the body of run_pipeline's try block: the methods it calls, in order (the
\* call of process_data is commented out)
PipelineStages == <<"fetch_stock_data", "save_data">>

\* the first statement of a method
EntryPc(fn) ==
    CASE fn = "fetch_stock_data" -> "fetch_history"
      [] fn = "process_data" -> "process_compute"
      [] fn = "save_data" -> "save_to_csv"

\* a variant in which run_pipeline calls the failed method again
UnwindRetry(fn, o) == IF o = fn THEN "idle" ELSE EntryPc(fn)

\* where an exception leaving method fn goes: to the caller, or, inside
\* run_pipeline, to its except block
Unwind(fn, o) == IF o = fn THEN "idle" ELSE "pipeline_except"

\* a variant in which the lookup's failure reaches the outer except block
AfterInfoErrorPropagates == "fetch_except"

\* the except block around the analyst-target lookup logs and falls through to
\* return hist_data
AfterInfoError == "fetch_return"

\* a variant that works on the object it is given
DataAlias(h, r) == [heap |-> h, ref |-> r]

\* data.copy(): a new object with the same table
DataCopy(h, r) == [heap |-> Append(h, h[r]), ref |-> Len(h) + 1]

\* method fn returns the object v; cs: the events so far
Return(fn, v, cs) ==
    IF outer = fn
    THEN /\ pc' = "idle"
         /\ result' = Returned(fn, v)
         /\ frame' = frame
         /\ calls' = cs
    ELSE LET bound == IF fn = "fetch_stock_data"
                      THEN [frame EXCEPT !.raw_data = v] ELSE frame
             k == frame.step + 1
         IN  /\ result' = result
             /\ IF k <= Len(PipelineStages)
                THEN /\ pc' = EntryPc(PipelineStages[k])
                     /\ frame' = [bound EXCEPT !.step = k, !.data = bound.raw_data]
                     /\ calls' = Append(cs, CallEvent(PipelineStages[k], args.ticker,
                                                      args.days_back, bound.raw_data))
                ELSE /\ pc' = "pipeline_return"
                     /\ frame' = bound
                     /\ calls' = cs

\* method fn logs the exception it caught and raises it again
LogAndRaise(fn) ==
    /\ log' = log \o ErrorRecord(fn, args.ticker, exc)
    /\ exc' = Reraise(exc)
    /\ pc' = Unwind(fn, outer)
    /\ result' = IF Unwind(fn, outer) = "idle" THEN Raised(fn, Reraise(exc)) ELSE result

\* the caller invokes method fn of the processor
Invoke(fn, t, n, objs, d) ==
    /\ pc = "idle"
    /\ proc.constructed
    /\ outer' = fn
    /\ args' = [ticker |-> t, days_back |-> n, data |-> d]
    /\ heap' = objs
    /\ log' = << >>
    /\ exc' = NoExc
    /\ raised' = NoExc
    /\ result' = NoResult
    /\ UNCHANGED <<dirs, files, proc, fillPad, lastSaved>>

-----------------------------------------------------------------------------
(* The constructor *)

Init ==
    /\ dirs \in {{}, {<<"data">>, <<"out">>}}
    /\ files = << >>
    /\ proc = [constructed |-> FALSE, data_dir |-> << >>]
    /\ heap = << >>
    /\ frame = NoFrame
    /\ log = << >>
    /\ calls = << >>
    /\ pc = "idle"
    /\ outer = ""
    /\ args = NoArgs
    /\ exc = NoExc
    /\ raised = NoExc
    /\ result = NoResult
    /\ fillPad \in BOOLEAN
    /\ lastSaved = [t \in Tickers |-> Unsaved]

\* StockDataProcessor(data_dir=d)
StockDataProcessor_init(d) ==
    /\ pc = "idle"
    /\ ~proc.constructed
    /\ outer' = "__init__"
    /\ calls' = <<CallEvent("__init__", NoTicker, 0, 0)>>
    /\ IF MkdirOk(dirs, d)
       THEN /\ dirs' = dirs \cup {d}
            /\ proc' = [constructed |-> TRUE, data_dir |-> d]
            /\ result' = Returned("__init__", 0)
            /\ raised' = NoExc
       ELSE /\ raised' = Exc("FileNotFoundError", "mkdir")
            /\ result' = Raised("__init__", Exc("FileNotFoundError", "mkdir"))
            /\ UNCHANGED <<dirs, proc>>
    /\ UNCHANGED <<files, heap, frame, log, pc, args, exc, fillPad, lastSaved>>

-----------------------------------------------------------------------------
(* fetch_stock_data *)

call_fetch_stock_data(t, n) ==
    /\ Invoke("fetch_stock_data", t, n, << >>, 0)
    /\ pc' = "fetch_history"
    /\ frame' = NoFrame
    /\ calls' = <<CallEvent("fetch_stock_data", t, n, 0)>>

\* the dates, the info record, and stock.history(start, end)
fetch_history ==
    /\ pc = "fetch_history"
    /\ log' = Append(log, LogRecord("INFO", "fetch_stock_data", args.ticker, NoExc))
    /\ \/ /\ heap' = Append(heap, HistoryRequest(args.ticker, args.days_back))
          /\ frame' = [frame EXCEPT !.hist_data = Len(heap) + 1]
          /\ calls' = Append(calls, Event("history", "fetch_stock_data", args.ticker,
                                          args.days_back, Len(heap) + 1, "ok"))
          /\ pc' = "fetch_info"
          /\ UNCHANGED <<exc, raised>>
       \/ /\ exc' = Exc("ConnectionError", "history")
          /\ raised' = Exc("ConnectionError", "history")
          /\ calls' = Append(calls, Event("history", "fetch_stock_data", args.ticker,
                                          args.days_back, 0, "raise"))
          /\ pc' = "fetch_except"
          /\ UNCHANGED <<heap, frame>>
    /\ UNCHANGED <<dirs, files, proc, outer, args, result, fillPad, lastSaved>>

\* the inner try: stock.info.get('targetMeanPrice'), the column when it is truthy
fetch_info ==
    /\ pc = "fetch_info"
    /\ \E o \in InfoOutcomes :
        /\ calls' = Append(calls, Event("info", "fetch_stock_data", args.ticker, 0,
                                        frame.hist_data, o))
        /\ IF o = "raise"
           THEN /\ log' = Append(log, LogRecord("WARNING", "analyst_target", NoTicker,
                                                Exc("KeyError", "info")))
                /\ pc' = AfterInfoError
                /\ exc' = IF AfterInfoError = "fetch_except"
                          THEN Exc("KeyError", "info") ELSE exc
                /\ raised' = IF AfterInfoError = "fetch_except"
                             THEN Exc("KeyError", "info") ELSE raised
                /\ heap' = heap
           ELSE /\ heap' = IF Truthy(o)
                           THEN [heap EXCEPT ![frame.hist_data] =
                                    SetItemScalar(@, "AnalystTargetPrice", TargetMeanPrice(o))]
                           ELSE heap
                /\ pc' = "fetch_return"
                /\ UNCHANGED <<log, exc, raised>>
    /\ UNCHANGED <<dirs, files, proc, frame, outer, args, result, fillPad, lastSaved>>

\* return hist_data
fetch_return ==
    /\ pc = "fetch_return"
    /\ Return("fetch_stock_data", frame.hist_data, calls)
    /\ UNCHANGED <<dirs, files, proc, heap, log, outer, args, exc, raised, fillPad, lastSaved>>

\* except Exception as e: logger.error, raise
fetch_except ==
    /\ pc = "fetch_except"
    /\ LogAndRaise("fetch_stock_data")
    /\ UNCHANGED <<dirs, files, proc, heap, frame, calls, outer, args, raised, fillPad,
                   lastSaved>>

-----------------------------------------------------------------------------
(* process_data *)

call_process_data(df) ==
    /\ Invoke("process_data", NoTicker, 0, <<df>>, 1)
    /\ pc' = "process_compute"
    /\ frame' = [NoFrame EXCEPT !.data = 1]
    /\ calls' = <<CallEvent("process_data", NoTicker, 0, 1)>>

\* the try block: the copy, the four columns, dropna, return processed_data;
\* processed_data['Close'] raises KeyError when there is no such column
process_compute ==
    /\ pc = "process_compute"
    /\ LET c == DataCopy(heap, frame.data)
       IN  IF HasCol(c.heap[c.ref], "Close")
           THEN /\ heap' = [c.heap EXCEPT ![c.ref] = Transform(@, fillPad)]
                /\ Return("process_data", c.ref, calls)
                /\ UNCHANGED <<exc, raised>>
           ELSE /\ heap' = c.heap
                /\ exc' = Exc("KeyError", "Close")
                /\ raised' = Exc("KeyError", "Close")
                /\ pc' = "process_except"
                /\ UNCHANGED <<frame, calls, result>>
    /\ UNCHANGED <<dirs, files, proc, log, outer, args, fillPad, lastSaved>>

process_except ==
    /\ pc = "process_except"
    /\ LogAndRaise("process_data")
    /\ UNCHANGED <<dirs, files, proc, heap, frame, calls, outer, args, raised, fillPad,
                   lastSaved>>

-----------------------------------------------------------------------------
(* save_data *)

call_save_data(df, t) ==
    /\ Invoke("save_data", t, 0, <<df>>, 1)
    /\ pc' = "save_to_csv"
    /\ frame' = [NoFrame EXCEPT !.data = 1]
    /\ calls' = <<CallEvent("save_data", t, 0, 1)>>

\* a prefix of the lines: what a write that fails part-way leaves
Prefixes(lines) == {SubSeq(lines, 1, k) : k \in 0..(Len(lines) - 1)}

\* the try block: the file's name, data.to_csv(filename), logger.info
save_to_csv ==
    /\ pc = "save_to_csv"
    /\ LET filename == Filename(proc.data_dir, args.ticker)
           lines == ToCsv(heap[frame.data])
           written(o) == Event("to_csv", "save_data", args.ticker, 0, frame.data, o)
       IN  \E o \in ToCsvOutcomes :
            /\ IF o = "ok"
               THEN /\ files' = WriteFile(files, filename, lines)
                    /\ lastSaved' = [lastSaved EXCEPT ![args.ticker] =
                           Saved(heap[frame.data],
                                 filename \in DOMAIN files /\ files[filename] # lines)]
                    /\ log' = Append(log, LogRecord("INFO", "save_data", NoTicker, NoExc))
                    /\ Return("save_data", 0, Append(calls, written(o)))
                    /\ UNCHANGED <<exc, raised>>
               ELSE /\ IF o = "denied"
                       THEN /\ files' = files
                            /\ lastSaved' = lastSaved
                       ELSE /\ \E part \in Prefixes(lines) :
                                  files' = WriteFile(files, filename, part)
                            /\ lastSaved' = [lastSaved EXCEPT ![args.ticker] = Unsaved]
                    /\ exc' = Exc("OSError", "to_csv")
                    /\ raised' = Exc("OSError", "to_csv")
                    /\ pc' = "save_except"
                    /\ calls' = Append(calls, written(o))
                    /\ UNCHANGED <<log, frame, result>>
    /\ UNCHANGED <<dirs, proc, heap, outer, args, fillPad>>

save_except ==
    /\ pc = "save_except"
    /\ LogAndRaise("save_data")
    /\ UNCHANGED <<dirs, files, proc, heap, frame, calls, outer, args, raised, fillPad,
                   lastSaved>>

-----------------------------------------------------------------------------
(* run_pipeline *)

call_run_pipeline(t, n) ==
    /\ Invoke("run_pipeline", t, n, << >>, 0)
    /\ pc' = EntryPc(PipelineStages[1])
    /\ frame' = [NoFrame EXCEPT !.step = 1]
    /\ calls' = <<CallEvent("run_pipeline", t, n, 0),
                  CallEvent(PipelineStages[1], t, n, 0)>>

\* return raw_data
pipeline_return ==
    /\ pc = "pipeline_return"
    /\ pc' = "idle"
    /\ result' = Returned("run_pipeline", frame.raw_data)
    /\ UNCHANGED <<dirs, files, proc, heap, frame, log, calls, outer, args, exc, raised,
                   fillPad, lastSaved>>

\* except Exception as e: logger.error, raise
pipeline_except ==
    /\ pc = "pipeline_except"
    /\ log' = log \o ErrorRecord("run_pipeline", args.ticker, exc)
    /\ exc' = Reraise(exc)
    /\ pc' = "idle"
    /\ result' = Raised("run_pipeline", Reraise(exc))
    /\ UNCHANGED <<dirs, files, proc, heap, frame, calls, outer, args, raised, fillPad,
                   lastSaved>>

-----------------------------------------------------------------------------
(* The processor and its callers *)

Next ==
    \/ \E d \in DataDirs : StockDataProcessor_init(d)
    \/ \E t \in Tickers, n \in DaysBackValues : call_fetch_stock_data(t, n)
    \/ fetch_history
    \/ fetch_info
    \/ fetch_return
    \/ fetch_except
    \/ \E df \in ClientFrames : call_process_data(df)
    \/ process_compute
    \/ process_except
    \/ \E df \in ClientFrames, t \in Tickers : call_save_data(df, t)
    \/ save_to_csv
    \/ save_except
    \/ \E t \in Tickers, n \in DaysBackValues : call_run_pipeline(t, n)
    \/ pipeline_return
    \/ pipeline_except

Spec == Init /\ [][Next]_vars

-----------------------------------------------------------------------------
(* process_data on the series a caller may hold *)

\* a series of n days from day 1: Close is 99 + step on day 1 and moves by step a day;
\* row hole, when there is one, has NaN in column holeCol
Series(n, step, hole, holeCol) ==
    [columns |-> <<"Close", "Volume">>,
     rows |-> [i \in 1..n |->
        [date |-> i,
         vals |-> <<IF i = hole /\ holeCol = "Close" THEN NaN ELSE Num(99 + step * i),
                    IF i = hole /\ holeCol = "Volume" THEN NaN ELSE Num(1000)>>]]]

SeriesInputs ==
    {Series(n, step, hole, holeCol) :
        n \in 0..MaxLen, step \in {-1, 0, 1}, hole \in 0..MaxLen, holeCol \in {"Close", "Volume"}}
    \cup {NoCloseFrame}

\* the caller has constructed the processor and called process_data(df)
InitProc ==
    /\ dirs = {<<"data">>}
    /\ files = << >>
    /\ proc = [constructed |-> TRUE, data_dir |-> <<"data">>]
    /\ heap \in {<<df>> : df \in SeriesInputs}
    /\ frame = [NoFrame EXCEPT !.data = 1]
    /\ log = << >>
    /\ calls = <<CallEvent("process_data", NoTicker, 0, 1)>>
    /\ pc = "process_compute"
    /\ outer = "process_data"
    /\ args = [ticker |-> NoTicker, days_back |-> 0, data |-> 1]
    /\ exc = NoExc
    /\ raised = NoExc
    /\ result = NoResult
    /\ fillPad \in BOOLEAN
    /\ lastSaved = [t \in Tickers |-> Unsaved]

NextProc ==
    \/ process_compute
    \/ process_except

SpecProc == InitProc /\ [][NextProc]_vars

-----------------------------------------------------------------------------
(* Properties of process_data, under SpecProc *)

IndicatorColumns == {"MA5", "MA20", "Daily_Return", "Volatility"}

ProcessReturned == result.op = "process_data" /\ result.kind = "return"

\* a row without the columns after the first k
Project(r, k) == [date |-> r.date, vals |-> SubSeq(r.vals, 1, k)]

\* the rows of out are rows of in, with in's values, in in's order
KeepsOrder(in, out) ==
    /\ \A i \in 1..NRows(out) : \E j \in 1..NRows(in) :
          Project(out.rows[i], Len(in.columns)) = in.rows[j]
    /\ \A i \in 1..(NRows(out) - 1) : out.rows[i].date < out.rows[i + 1].date

\* the last k rows of in are the rows of out
LastRows(in, out, k) ==
    /\ NRows(out) = k
    /\ \A i \in 1..k :
          Project(out.rows[i], Len(in.columns)) = in.rows[NRows(in) - k + i]

\* C4: every row process_data returns has MA5, MA20, Daily_Return and
\* Volatility defined, the rows that survive keep their order, and a series
\* of fewer than 20 rows gives no row.
C4_TransformRowsDefined ==
    ProcessReturned =>
        LET in == heap[args.data]
            out == heap[result.ref]
        IN  /\ \A c \in IndicatorColumns : HasCol(out, c)
            /\ \A c \in IndicatorColumns : \A i \in 1..NRows(out) : GetItem(out, c)[i].def
            /\ KeepsOrder(in, out)
            /\ NRows(in) < 20 => NRows(out) = 0

C4_Witness ==
    /\ ProcessReturned
    /\ NRows(heap[result.ref]) >= 2
    /\ \E i \in 1..NRows(heap[args.data]) : ~RowDefined(heap[args.data].rows[i])

\* the series of 25 days with Close 100, 101, ..., 124
ScenarioInput ==
    [columns |-> <<"Close", "Volume">>,
     rows |-> [i \in 1..25 |-> [date |-> i, vals |-> <<Num(99 + i), Num(1000)>>]]]

ScenarioReturned == ProcessReturned /\ heap[args.data] = ScenarioInput

\* C5 as stated: on the series of 25 days with Close 100..124, process_data
\* yields 25 - 19 = 6 rows, the last 6 of the input.
C5_ScenarioSixRows ==
    ScenarioReturned => LastRows(heap[args.data], heap[result.ref], 6)

\* C5 as amended: on that series process_data yields 25 - 20 = 5 rows, the
\* last 5 of the input (Volatility needs 20 returns, and the first row has none).
C5_ScenarioFiveRows ==
    ScenarioReturned => LastRows(heap[args.data], heap[result.ref], 5)

C5_Witness == ScenarioReturned /\ NRows(heap[result.ref]) > 0

IsProviderRequest(e) == e.ev \in {"history", "info"}

\* a step of process_data changes no object that exists, no file, no
\* directory, and adds no provider request
ProcessStepKeeps ==
    pc \in {"process_compute", "process_except"} =>
        /\ \A r \in 1..Len(heap) : heap'[r] = heap[r]
        /\ files' = files
        /\ dirs' = dirs
        /\ SelectSeq(calls', IsProviderRequest) = SelectSeq(calls, IsProviderRequest)

\* C10: process_data leaves the series it is given as it was (rows, columns,
\* values), whether it returns or fails, writes no file and asks the provider
\* nothing.
C10_ProcessLeavesInput == [][ProcessStepKeeps]_vars

C10_Witness ==
    /\ ProcessReturned
    /\ result.ref # args.data
    /\ NRows(heap[result.ref]) = 1
    /\ Len(heap[result.ref].columns) > Len(heap[args.data].columns)

-----------------------------------------------------------------------------
(* Properties of the pipeline, under Spec *)

IsMethodCall(e) == e.ev = "call"
IsHistoryRequest(e) == e.ev = "history"
IsWrite(e) == e.ev = "to_csv"
IsErrorRecord(r) == r.level = "ERROR"

Called(fn) == \E i \in 1..Len(calls) : calls[i].ev = "call" /\ calls[i].fn = fn

PipelineReturned ==
    outer = "run_pipeline" /\ pc = "idle" /\ result.kind = "return"

\* the table is the provider's answer to the request, with or without the
\* broadcast analyst target, and without any indicator column
IsRawSeries(df, t, n) ==
    LET h == HistoryRequest(t, n)
    IN  /\ df.columns \in {h.columns, Append(h.columns, "AnalystTargetPrice")}
        /\ NRows(df) = NRows(h)
        /\ \A i \in 1..NRows(h) : Project(df.rows[i], Len(h.columns)) = h.rows[i]
        /\ \A c \in IndicatorColumns : ~HasCol(df, c)

FetchFailed == outer = "run_pipeline" /\ raised.site = "history"
SaveFailed == outer = "run_pipeline" /\ raised.site = "to_csv"

\* after a failure no stage runs again, nothing is returned and the caller gets
\* the exception; after a failed fetch save_data is not called
AbortsAtOnce ==
    /\ FetchFailed =>
        /\ pc \in {"fetch_except", "pipeline_except", "idle"}
        /\ ~Called("save_data")
        /\ Len(SelectSeq(calls, IsWrite)) = 0
        /\ Len(SelectSeq(calls, IsHistoryRequest)) = 1
        /\ pc = "idle" => result = Raised("run_pipeline", raised)
    /\ SaveFailed =>
        /\ pc \in {"save_except", "pipeline_except", "idle"}
        /\ Len(SelectSeq(calls, IsWrite)) = 1
        /\ Len(SelectSeq(calls, IsHistoryRequest)) = 1
        /\ pc = "idle" => result = Raised("run_pipeline", raised)

\* once the fetch has failed, no step of the run changes a file or a directory
FailedFetchKeepsFiles ==
    (FetchFailed /\ pc # "idle") => files' = files /\ dirs' = dirs

\* C2: when the history request or save_data fails, run_pipeline aborts at
\* once: after a failed fetch save_data is not called and no file is created or
\* changed, no series is returned, no stage is retried, and the caller gets the
\* exception.
C2_PipelineAborts == []AbortsAtOnce /\ [][FailedFetchKeepsFiles]_vars

C2_Witness ==
    /\ FetchFailed
    /\ pc = "idle"
    /\ result.kind = "raise"
    /\ DOMAIN files # {}

InfoRaised == \E i \in 1..Len(calls) : calls[i].ev = "info" /\ calls[i].out = "raise"

\* C3: when the history request succeeds and the analyst-target lookup raises,
\* fetch_stock_data returns the history as the provider gave it, without an
\* AnalystTargetPrice column, a warning and no error is logged, and a
\* run_pipeline goes on to save_data and returns.
C3_AnalystTargetFailureSwallowed ==
    InfoRaised =>
        LET h == frame.hist_data
        IN  /\ heap[h] = HistoryRequest(args.ticker, args.days_back)
            /\ ~HasCol(heap[h], "AnalystTargetPrice")
            /\ \E i \in 1..Len(log) : log[i].level = "WARNING"
            /\ raised = NoExc \/ raised.site = "to_csv"
            /\ raised = NoExc => Len(SelectSeq(log, IsErrorRecord)) = 0
            /\ outer = "fetch_stock_data" =>
                  /\ pc \in {"fetch_return", "idle"}
                  /\ pc = "idle" => result = Returned("fetch_stock_data", h)
            /\ outer = "run_pipeline" =>
                  /\ pc # "fetch_return" =>
                        /\ Called("save_data")
                        /\ frame.raw_data = h
                        /\ frame.data = h
                  /\ (pc = "idle" /\ raised = NoExc) => result = Returned("run_pipeline", h)

C3_Witness ==
    /\ InfoRaised
    /\ PipelineReturned
    /\ NRows(heap[result.ref]) > 0

\* every directory on the way to d, and d
Ancestors(d) == {SubSeq(d, 1, k) : k \in 1..Len(d)}

\* C6 as stated: when the destination directory does not exist, its parents
\* missing or not, constructing the processor raises nothing and creates the
\* directory and its missing parents, and save_data then writes the file.
C6_MissingDirectoriesCreated ==
    /\ result.op = "__init__" =>
          /\ result.kind = "return"
          /\ Ancestors(proc.data_dir) \subseteq dirs
    /\ (result.op = "save_data" /\ result.kind = "return") =>
          /\ proc.data_dir \in dirs
          /\ Filename(proc.data_dir, args.ticker) \in DOMAIN files

\* the file of each ticker whose last save succeeded holds that save's table
FilesHoldLastSave ==
    \A t \in Tickers :
        lastSaved[t].known =>
            /\ Filename(proc.data_dir, t) \in DOMAIN files
            /\ files[Filename(proc.data_dir, t)] = ToCsv(lastSaved[t].data)

\* the write of a save for one ticker leaves the other tickers' files as they were
SaveKeepsOtherFiles ==
    pc = "save_to_csv" =>
        \A t \in Tickers \ {args.ticker} :
            LET f == Filename(proc.data_dir, t)
            IN  /\ (f \in DOMAIN files) = (f \in DOMAIN files')
                /\ f \in DOMAIN files => files'[f] = files[f]

\* C7: after successful saves the file {data_dir}/{ticker}_stock_data.csv holds
\* the table of the last save for that ticker, not more, and a save for one
\* ticker leaves every other ticker's file unchanged.
C7_SaveOverwrites == []FilesHoldLastSave /\ [][SaveKeepsOtherFiles]_vars

C7_Witness ==
    /\ lastSaved["AAPL"].known
    /\ lastSaved["ZZZZ"].known
    /\ result.op = "save_data"
    /\ result.kind = "return"
    /\ lastSaved["AAPL"].data # lastSaved["ZZZZ"].data
    /\ lastSaved[args.ticker].replaced

\* the method whose try block the failing library call is in
SiteMethod(site) ==
    CASE site = "history" -> "fetch_stock_data"
      [] site = "Close" -> "process_data"
      [] site = "to_csv" -> "save_data"
      [] OTHER -> ""

MethodFailed ==
    /\ result.kind = "raise"
    /\ result.op \in {"fetch_stock_data", "process_data", "save_data", "run_pipeline"}

FirstError == SelectSeq(log, IsErrorRecord)[1]

\* C8 as stated: a fatal failure of one of the four methods has logged, where it
\* was detected, an error record with the ticker and the stage before the caller
\* gets the exception, and the caller gets the exception first raised.
C8_ErrorLoggedWithTickerAndStage ==
    MethodFailed =>
        /\ Len(SelectSeq(log, IsErrorRecord)) >= 1
        /\ FirstError.stage = SiteMethod(raised.site)
        /\ FirstError.ticker # NoTicker
        /\ FirstError.ticker = args.ticker
        /\ result.exc = raised

\* C8 as amended: the record logged where the failure was detected names the
\* stage and the exception, and the ticker only in fetch_stock_data; run_pipeline
\* adds a record with its ticker; the caller gets the exception first raised.
C8_ErrorLoggedThenReraised ==
    /\ pc = "pipeline_except" =>
          /\ Len(log) >= 1
          /\ log[Len(log)] = LogRecord("ERROR", SiteMethod(raised.site),
                 IF raised.site = "history" THEN args.ticker ELSE NoTicker, raised)
          /\ exc = raised
    /\ MethodFailed =>
          /\ Len(SelectSeq(log, IsErrorRecord)) = IF result.op = "run_pipeline" THEN 2 ELSE 1
          /\ FirstError = LogRecord("ERROR", SiteMethod(raised.site),
                 IF raised.site = "history" THEN args.ticker ELSE NoTicker, raised)
          /\ result.op = "run_pipeline" =>
                log[Len(log)] = LogRecord("ERROR", "run_pipeline", args.ticker, raised)
          /\ result.exc = raised

C8_Witness ==
    /\ MethodFailed
    /\ result.op = "run_pipeline"
    /\ raised.site = "to_csv"

ZeroRows ==
    /\ outer \in {"fetch_stock_data", "run_pipeline"}
    /\ frame.hist_data # 0
    /\ NRows(HistoryRequest(args.ticker, args.days_back)) = 0

\* C9: when the provider has no row for the request, fetch_stock_data returns
\* an empty series and raises nothing, and run_pipeline calls save_data, which
\* writes a file of the header alone, and returns the empty series.
C9_EmptySeriesSaved ==
    ZeroRows =>
        LET h == frame.hist_data
            f == Filename(proc.data_dir, args.ticker)
        IN  /\ NRows(heap[h]) = 0
            /\ raised = NoExc \/ raised.site = "to_csv"
            /\ (outer = "fetch_stock_data" /\ pc = "idle") =>
                  result = Returned("fetch_stock_data", h)
            /\ (outer = "run_pipeline" /\ pc \notin {"fetch_info", "fetch_return"}) =>
                  Called("save_data")
            /\ PipelineReturned =>
                  /\ result.ref = h
                  /\ f \in DOMAIN files
                  /\ files[f] = <<(<<"Date">> \o heap[h].columns)>>

C9_Witness ==
    /\ ZeroRows
    /\ PipelineReturned
    /\ args.ticker = "ZZZZ"
    /\ Len(files[Filename(proc.data_dir, "ZZZZ")]) = 1

====
